---------------------------- MODULE Spec2Model ----------------------------
(***************************************************************************)
(* A model of the generic connection pool of henrywhitaker3/pool           *)
(* (src/logger.go, lines 29-287: package pool).                            *)
(*                                                                         *)
(* Threads of the program and how they appear here:                        *)
(*   - the constructing thread: New, which validates the options and runs  *)
(*     the eager pass (pass 0) synchronously, then starts the ticker;      *)
(*   - the ticker goroutine of connect(): a select between the closed      *)
(*     channel and the tick, each tick spawning `go p.probe()`;            *)
(*   - the spawned passes (probe), slots 1..MaxPasses;                     *)
(*   - the callers, each invoking Next, ExNext, Return or Close.           *)
(* One action is one atomic step of the code: a critical section of p.mu,  *)
(* an atomic add, a channel operation, or one unlocked access of p.pool.   *)
(* p.mu is never held across a call that blocks, so its critical sections  *)
(* are the atomic actions themselves; p.prober is held across a whole pass *)
(* and is a variable.  A run-time panic of Go (index out of range, integer *)
(* divide by zero) ends the program: it is recorded in `panic` and no      *)
(* action is enabled afterwards.                                           *)
(***************************************************************************)
EXTENDS Integers, Sequences, FiniteSets, TLC

\* ------------------------------------------------------------------ bounds
\* The full interleaving (Spec): largest target count (PoolOptions.Connections)
\* the options are drawn from, and number of connections the connect function
\* can hand out in one run.
MaxConnections == 2
MaxConns == 2
\* Number of caller threads.
NumCallers == 2
\* Number of passes spawned by the ticker that may be alive at once.
MaxPasses == 1
\* The specifications of one scenario (SpecSteady, SpecRR, SpecExRet,
\* SpecNew, SpecPass, SpecScan, SpecSerial): largest target count or registry
\* size, and spawned passes alive at once.
WideConnections == 3
WidePasses == 2
\* Number of connections the health predicate comes to report unhealthy.
MaxSick == 1
\* Largest value the round-robin cursor p.next takes in a run.
MaxCursor == 2

Callers == 1..NumCallers
Passes == 0..(MaxPasses + WidePasses)
Conns == 1..(MaxConns + WideConnections + 1)
NoConn == 0

VARIABLES
  opts,         \* PoolOptions: Connect/Healthy given or nil, Connections, ProbeInterval
  phase,        \* "init": New not called; "probing": eager pass; "running"; "failed"
  newErr,       \* the error New returned ("" for nil)
  pool,         \* p.pool: the registry, a sequence of connections
  next,         \* p.next: the round-robin cursor
  closedCh,     \* p.closed: number of values in the channel's buffer (capacity 1)
  closer,       \* p.closer (sync.Once): "fresh", "running" or "done"
  prober,       \* p.prober: the pass holding the lock, or -1
  ticker,       \* the goroutine of connect(): "off", "running" or "stopped"
  pass,         \* per pass: its position and locals (len, i, removed, loop counter)
  call,         \* per caller: its position and locals (len, n, index, conn, i)
  held,         \* per caller: connections obtained by ExNext and not yet returned
  created,      \* number of connections the connect function has produced
  closeCount,   \* per connection: number of times its Close() was invoked
  unhealthy,    \* connections the health predicate currently reports unhealthy
  panic,        \* "" or the run-time panic that ended the program
  log           \* history of one scenario: positions returned by Next (SpecRR),
                \* connections handed to the health predicate (SpecScan)

vars == <<opts, phase, newErr, pool, next, closedCh, closer, prober, ticker, pass,
          call, held, created, closeCount, unhealthy, panic, log>>

\* Groups used by UNCHANGED.
cfgVars == <<opts, newErr>>
callVars == <<call, held>>

\* ---------------------------------------------------------------- helpers
Range(s) == {s[k] : k \in 1..Len(s)}

\* p.pool[index] with a Go (0-based) index.
At(s, index) == s[index + 1]

\* An index expression p.pool[index] is in range.
InRange(s, index) == index >= 0 /\ index < Len(s)

\* A variant of removeFromPool that drops the last element whatever the index.
removeFromPoolLast(s, index) == SubSeq(s, 1, Len(s) - 1)

\* removeFromPool: append(p.pool[:index], p.pool[index+1:]...)
removeFromPool(s, index) == SubSeq(s, 1, index) \o SubSeq(s, index + 2, Len(s))

\* Size(): len(p.pool) under p.mu.
Size == Len(pool)

\* A variant of the round-robin index that ignores the cursor's low bit.
RoundRobinIndexHalf(n, len) == (n \div 2) % len

\* int(n) % len of Next and ExNext (len > 0).  The cursor is a uint64 that
\* starts at 0 and int(n) is n as long as n is below 2^63; the cursors of the
\* model stay below MaxCursor (Spec) or the number of calls of SpecRR.
RoundRobinIndex(n, len) == n % len

\* A variant of the deficit that is one short.
DeficitShort(target, len) == target - len - 1

\* diff := p.opts.Connections - len, with len read before the health scan.
Deficit(target, len) == target - len

\* A variant of validate that checks the connection count first.
validateCountFirst(o) ==
  IF o.Connections < 1 THEN "ErrInvalidConnectionCount"
  ELSE IF ~o.Connect THEN "ErrNoConnectFunc"
  ELSE IF o.ProbeInterval <= 0 THEN "ErrInvalidProbeInterval"
  ELSE ""

\* validate(): the first failing check decides the error.
validate(o) ==
  IF ~o.Connect THEN "ErrNoConnectFunc"
  ELSE IF o.Connections < 1 THEN "ErrInvalidConnectionCount"
  ELSE IF o.ProbeInterval <= 0 THEN "ErrInvalidProbeInterval"
  ELSE ""

IdlePass == [pc |-> "idle", len |-> 0, i |-> 0, removed |-> 0, j |-> 0,
             afterClose |-> FALSE, sick |-> {}]
IdleCall == [pc |-> "idle", len |-> 0, index |-> 0, conn |-> NoConn, i |-> 0]

\* -------------------------------------------------------------------- Init
\* The state before New is called, for options with a target count up to
\* maxTarget.
InitUpTo(maxTarget) ==
  /\ opts \in [Connect : BOOLEAN, Healthy : BOOLEAN,
               Connections : (0 - 1)..maxTarget, ProbeInterval : (0 - 1)..1]
  /\ phase = "init"
  /\ newErr = ""
  /\ pool = <<>>
  /\ next = 0
  /\ closedCh = 0
  /\ closer = "fresh"
  /\ prober = 0 - 1
  /\ ticker = "off"
  /\ pass = [p \in Passes |-> IdlePass]
  /\ call = [c \in Callers |-> IdleCall]
  /\ held = [c \in Callers |-> {}]
  /\ created = 0
  /\ closeCount = [x \in Conns |-> 0]
  /\ unhealthy = {}
  /\ panic = ""
  /\ log = <<>>

Init == InitUpTo(MaxConnections)

\* --------------------------------------------------------------------- New
\* New: validate the options; on success run connect(), whose first statement
\* is the eager p.probe() (pass 0) in the constructing thread.
New ==
  /\ panic = ""
  /\ phase = "init"
  /\ IF validate(opts) # ""
       THEN /\ phase' = "failed"
            /\ newErr' = validate(opts)
            /\ pass' = pass
       ELSE /\ phase' = "probing"
            /\ newErr' = ""
            /\ pass' = [pass EXCEPT ![0].pc = "lock"]
  /\ UNCHANGED <<opts, pool, next, closedCh, closer, prober, ticker, callVars,
                 created, closeCount, unhealthy, panic, log>>

\* ------------------------------------------------------------------- probe
\* What the deferred p.prober.Unlock() and the return of probe() leave: the
\* lock free and, for the eager pass, connect() starting the ticker goroutine
\* and New returning the pool.
Unlocked(p) ==
  /\ prober' = 0 - 1
  /\ pass' = [pass EXCEPT ![p] = IdlePass]
  /\ IF p = 0
       THEN phase' = "running" /\ ticker' = "running"
       ELSE UNCHANGED <<phase, ticker>>

\* After the health scan: the replenishment loop `for range diff`, entered
\* only when diff > 0.
ToConnect(p, rec) ==
  IF Deficit(opts.Connections, rec.len) > 0
    THEN /\ pass' = [pass EXCEPT ![p] = [rec EXCEPT !.pc = "connect", !.j = 0]]
         /\ UNCHANGED <<prober, phase, ticker>>
    ELSE Unlocked(p)

\* After one iteration of the health scan `for i := range len`.
ToScan(p, rec) ==
  IF rec.i < rec.len
    THEN /\ pass' = [pass EXCEPT ![p] = [rec EXCEPT !.pc = "healthy"]]
         /\ UNCHANGED <<prober, phase, ticker>>
    ELSE ToConnect(p, rec)

\* A variant of probeLock that does not wait for the lock to be free.
probeLockNoWait(p) ==
  /\ panic = ""
  /\ pass[p].pc = "lock"
  /\ prober' = p
  /\ pass' = [pass EXCEPT ![p].pc = "select", ![p].afterClose = (closer # "fresh")]
  /\ UNCHANGED <<cfgVars, phase, pool, next, closedCh, closer, ticker, callVars,
                 created, closeCount, unhealthy, panic, log>>

\* p.prober.Lock()
probeLock(p) ==
  /\ panic = ""
  /\ pass[p].pc = "lock"
  /\ prober = 0 - 1
  /\ prober' = p
  /\ pass' = [pass EXCEPT ![p].pc = "select", ![p].afterClose = (closer # "fresh")]
  /\ UNCHANGED <<cfgVars, phase, pool, next, closedCh, closer, ticker, callVars,
                 created, closeCount, unhealthy, panic, log>>

\* select { case <-p.Closed(): return }: the receive takes the buffered value.
probeClosed(p) ==
  /\ panic = ""
  /\ pass[p].pc = "select"
  /\ closedCh > 0
  /\ closedCh' = closedCh - 1
  /\ Unlocked(p)
  /\ UNCHANGED <<cfgVars, pool, next, closer, callVars, created, closeCount,
                 unhealthy, panic, log>>

\* select { default: ... }: nothing to receive, the pass goes on.
probeDefault(p) ==
  /\ panic = ""
  /\ pass[p].pc = "select"
  /\ closedCh = 0
  /\ pass' = [pass EXCEPT ![p].pc = "size", ![p].sick = unhealthy \cap Range(pool)]
  /\ UNCHANGED <<cfgVars, phase, pool, next, closedCh, closer, prober, ticker,
                 callVars, created, closeCount, unhealthy, panic, log>>

\* len := p.Size(); if len == p.opts.Connections { return }; then the health
\* scan when a predicate is configured, else the replenishment loop.
probeSizeCore(p) ==
  /\ panic = ""
  /\ pass[p].pc = "size"
  /\ LET rec == [pass[p] EXCEPT !.len = Size, !.i = 0, !.removed = 0] IN
       IF Size = opts.Connections THEN Unlocked(p)
       ELSE IF opts.Healthy THEN ToScan(p, rec)
       ELSE ToConnect(p, rec)
  /\ UNCHANGED <<cfgVars, pool, next, closedCh, closer, callVars, created,
                 closeCount, unhealthy, panic>>

probeSize(p) == probeSizeCore(p) /\ UNCHANGED log

\* if !p.opts.Healthy(p.pool[i-removed]): an unlocked read of p.pool.
probeHealthyCore(p) ==
  /\ panic = ""
  /\ pass[p].pc = "healthy"
  /\ LET idx == pass[p].i - pass[p].removed IN
       IF ~InRange(pool, idx)
         THEN /\ panic' = "index out of range"
              /\ UNCHANGED <<pass, prober, phase, ticker>>
         ELSE /\ panic' = panic
              /\ IF At(pool, idx) \in unhealthy
                   THEN /\ pass' = [pass EXCEPT ![p].pc = "close"]
                        /\ UNCHANGED <<prober, phase, ticker>>
                   ELSE ToScan(p, [pass[p] EXCEPT !.i = @ + 1])
  /\ UNCHANGED <<cfgVars, pool, next, closedCh, closer, callVars, created,
                 closeCount, unhealthy>>

probeHealthy(p) == probeHealthyCore(p) /\ UNCHANGED log

\* p.pool[i-removed].Close(): a second unlocked read of p.pool.
probeClose(p) ==
  /\ panic = ""
  /\ pass[p].pc = "close"
  /\ LET idx == pass[p].i - pass[p].removed IN
       IF ~InRange(pool, idx)
         THEN /\ panic' = "index out of range"
              /\ UNCHANGED <<pass, closeCount>>
         ELSE /\ panic' = panic
              /\ closeCount' = [closeCount EXCEPT ![At(pool, idx)] = @ + 1]
              /\ pass' = [pass EXCEPT ![p].pc = "remove"]
  /\ UNCHANGED <<cfgVars, phase, pool, next, closedCh, closer, prober, ticker,
                 callVars, created, unhealthy, log>>

\* p.reportError(); p.removeFromPool(i - removed); removed++
probeRemove(p) ==
  /\ panic = ""
  /\ pass[p].pc = "remove"
  /\ LET idx == pass[p].i - pass[p].removed IN
       IF ~InRange(pool, idx)
         THEN /\ panic' = "slice bounds out of range"
              /\ UNCHANGED <<pass, pool, prober, phase, ticker>>
         ELSE /\ panic' = panic
              /\ pool' = removeFromPool(pool, idx)
              /\ ToScan(p, [pass[p] EXCEPT !.i = @ + 1, !.removed = @ + 1])
  /\ UNCHANGED <<cfgVars, next, closedCh, closer, callVars, created, closeCount,
                 unhealthy, log>>

\* One iteration of `for range diff`: conn, err := p.opts.Connect(); on an
\* error log, reportError and continue, else p.Return(conn).  The connection
\* is unknown to every other thread until Return appends it, so the connect
\* call and the append are one step.  `outcomes` is what the connect function
\* may answer: TRUE (a connection) or FALSE (an error), and `ids` bounds the
\* connections it hands out in a run.
probeConnect(p, outcomes, ids) ==
  /\ panic = ""
  /\ pass[p].pc = "connect"
  /\ \E success \in outcomes :
       /\ IF success
            THEN /\ created < ids
                 /\ created' = created + 1
                 /\ pool' = Append(pool, created + 1)
            ELSE UNCHANGED <<created, pool>>
       /\ LET rec == [pass[p] EXCEPT !.j = @ + 1] IN
            IF rec.j < Deficit(opts.Connections, rec.len)
              THEN /\ pass' = [pass EXCEPT ![p] = rec]
                   /\ UNCHANGED <<prober, phase, ticker>>
              ELSE Unlocked(p)
  /\ UNCHANGED <<cfgVars, next, closedCh, closer, callVars, closeCount,
                 unhealthy, panic, log>>

probe(p, outcomes, ids) ==
  \/ probeLock(p)
  \/ probeClosed(p)
  \/ probeDefault(p)
  \/ probeSize(p)
  \/ probeHealthy(p)
  \/ probeClose(p)
  \/ probeRemove(p)
  \/ probeConnect(p, outcomes, ids)

\* ----------------------------------------------------------------- connect
\* The ticker goroutine: case <-tick.C: go p.probe().  The new goroutine
\* takes the lowest free slot of 1..slots.
FreeSlots(slots) == {p \in 1..slots : pass[p].pc = "idle"}

connectTick(slots) ==
  /\ panic = ""
  /\ ticker = "running"
  /\ FreeSlots(slots) # {}
  /\ LET p == CHOOSE q \in FreeSlots(slots) : \A r \in FreeSlots(slots) : q <= r IN
       pass' = [pass EXCEPT ![p] = [IdlePass EXCEPT !.pc = "lock"]]
  /\ UNCHANGED <<cfgVars, phase, pool, next, closedCh, closer, prober, ticker,
                 callVars, created, closeCount, unhealthy, panic, log>>

\* The ticker goroutine: case <-p.Closed(): return (tick.Stop() deferred).
connectStop ==
  /\ panic = ""
  /\ ticker = "running"
  /\ closedCh > 0
  /\ closedCh' = closedCh - 1
  /\ ticker' = "stopped"
  /\ UNCHANGED <<cfgVars, phase, pool, next, closer, prober, pass, callVars,
                 created, closeCount, unhealthy, panic, log>>

\* -------------------------------------------------------------------- Next
\* len := p.Size(); if len == 0 { return empty, false }
NextSizeCore(c) ==
  /\ panic = ""
  /\ phase = "running"
  /\ call[c].pc = "idle"
  /\ IF Size = 0
       THEN call' = call
       ELSE call' = [call EXCEPT ![c] = [IdleCall EXCEPT !.pc = "next_add", !.len = Size]]
  /\ UNCHANGED <<cfgVars, phase, pool, next, closedCh, closer, prober, ticker, pass,
                 held, created, closeCount, unhealthy, panic>>

\* n := atomic.AddUint64(&p.next, 1), and the index int(n)%len it decides.
NextAddCore(c) ==
  /\ panic = ""
  /\ call[c].pc = "next_add"
  /\ next' = next + 1
  /\ call' = [call EXCEPT ![c] = [IdleCall EXCEPT !.pc = "next_read",
                          !.index = RoundRobinIndex(next + 1, call[c].len)]]
  /\ UNCHANGED <<cfgVars, phase, pool, closedCh, closer, prober, ticker, pass,
                 held, created, closeCount, unhealthy, panic>>

\* return p.pool[int(n)%len], true: an unlocked read of p.pool.
NextReadCore(c) ==
  /\ panic = ""
  /\ call[c].pc = "next_read"
  /\ IF ~InRange(pool, call[c].index)
       THEN /\ panic' = "index out of range"
            /\ call' = call
       ELSE /\ panic' = panic
            /\ call' = [call EXCEPT ![c] = IdleCall]
  /\ UNCHANGED <<cfgVars, phase, pool, next, closedCh, closer, prober, ticker, pass,
                 held, created, closeCount, unhealthy>>

NextSize(c) == NextSizeCore(c) /\ UNCHANGED log
NextAdd(c) == next < MaxCursor /\ NextAddCore(c) /\ UNCHANGED log
NextRead(c) == NextReadCore(c) /\ UNCHANGED log

\* ------------------------------------------------------------------ ExNext
\* len := p.Size()
ExNextSize(c) ==
  /\ panic = ""
  /\ phase = "running"
  /\ call[c].pc = "idle"
  /\ call' = [call EXCEPT ![c] = [IdleCall EXCEPT !.pc = "ex_check", !.len = Size]]
  /\ UNCHANGED <<cfgVars, phase, pool, next, closedCh, closer, prober, ticker, pass,
                 held, created, closeCount, unhealthy, panic, log>>

\* if p.Size() == 0 { return empty, false }: a second read of the size.
ExNextCheck(c) ==
  /\ panic = ""
  /\ call[c].pc = "ex_check"
  /\ IF Size = 0
       THEN call' = [call EXCEPT ![c] = IdleCall]
       ELSE call' = [call EXCEPT ![c].pc = "ex_add"]
  /\ UNCHANGED <<cfgVars, phase, pool, next, closedCh, closer, prober, ticker, pass,
                 held, created, closeCount, unhealthy, panic, log>>

\* n := atomic.AddUint64(&p.next, 1); index := int(n) % len, with the len of
\* the first read: the division panics when that len is 0.
ExNextAdd(c) ==
  /\ panic = ""
  /\ call[c].pc = "ex_add"
  /\ next' = next + 1
  /\ IF call[c].len = 0
       THEN /\ panic' = "integer divide by zero"
            /\ call' = call
       ELSE /\ panic' = panic
            /\ call' = [call EXCEPT ![c] = [IdleCall EXCEPT !.pc = "ex_read",
                          !.index = RoundRobinIndex(next + 1, call[c].len)]]
  /\ UNCHANGED <<cfgVars, phase, pool, closedCh, closer, prober, ticker, pass,
                 held, created, closeCount, unhealthy, log>>

\* p.mu.Lock(); conn := p.pool[index]; p.mu.Unlock()
ExNextRead(c) ==
  /\ panic = ""
  /\ call[c].pc = "ex_read"
  /\ IF ~InRange(pool, call[c].index)
       THEN /\ panic' = "index out of range"
            /\ call' = call
       ELSE /\ panic' = panic
            /\ call' = [call EXCEPT ![c].pc = "ex_remove",
                                    ![c].conn = At(pool, call[c].index)]
  /\ UNCHANGED <<cfgVars, phase, pool, next, closedCh, closer, prober, ticker, pass,
                 held, created, closeCount, unhealthy, log>>

\* p.removeFromPool(index); return conn, true: a second critical section.
ExNextRemove(c) ==
  /\ panic = ""
  /\ call[c].pc = "ex_remove"
  /\ IF ~InRange(pool, call[c].index)
       THEN /\ panic' = "slice bounds out of range"
            /\ UNCHANGED <<call, held, pool>>
       ELSE /\ panic' = panic
            /\ pool' = removeFromPool(pool, call[c].index)
            /\ held' = [held EXCEPT ![c] = @ \cup {call[c].conn}]
            /\ call' = [call EXCEPT ![c] = IdleCall]
  /\ UNCHANGED <<cfgVars, phase, next, closedCh, closer, prober, ticker, pass,
                 created, closeCount, unhealthy, log>>

\* ------------------------------------------------------------------ Return
\* Return(c): append under p.mu.  The caller gives back a connection it
\* obtained from ExNext (the caller contract).
Return(c) ==
  /\ panic = ""
  /\ phase = "running"
  /\ call[c].pc = "idle"
  /\ \E x \in held[c] :
       /\ pool' = Append(pool, x)
       /\ held' = [held EXCEPT ![c] = @ \ {x}]
  /\ UNCHANGED <<cfgVars, phase, next, closedCh, closer, prober, ticker, pass,
                 call, created, closeCount, unhealthy, panic, log>>

\* ------------------------------------------------------------------- Close
\* p.closer.Do(func() { ...; p.closed <- struct{}{}: the first invocation
\* takes the Once and sends one value into the buffered channel.
CloseDo(c) ==
  /\ panic = ""
  /\ phase = "running"
  /\ call[c].pc = "idle"
  /\ closer = "fresh"
  /\ closedCh < 1
  /\ closer' = "running"
  /\ closedCh' = closedCh + 1
  /\ call' = [call EXCEPT ![c] = [IdleCall EXCEPT !.pc = "close_size"]]
  /\ UNCHANGED <<cfgVars, phase, pool, next, prober, ticker, pass, held,
                 created, closeCount, unhealthy, panic, log>>

\* p.closer.Do on a Once already taken: the function is not run.
CloseSkip(c) ==
  /\ panic = ""
  /\ phase = "running"
  /\ call[c].pc = "idle"
  /\ closer # "fresh"
  /\ call' = [call EXCEPT ![c] = [IdleCall EXCEPT !.pc = "close_wait"]]
  /\ UNCHANGED <<cfgVars, phase, pool, next, closedCh, closer, prober, ticker,
                 pass, held, created, closeCount, unhealthy, panic, log>>

\* Do returns once the first invocation's function has returned.
CloseReturn(c) ==
  /\ panic = ""
  /\ call[c].pc = "close_wait"
  /\ closer = "done"
  /\ call' = [call EXCEPT ![c] = IdleCall]
  /\ UNCHANGED <<cfgVars, phase, pool, next, closedCh, closer, prober, ticker,
                 pass, held, created, closeCount, unhealthy, panic, log>>

\* The end of the drain loop `for range len`, and of the Once's function.
CloseLoop(c, rec) ==
  IF rec.i < rec.len
    THEN /\ call' = [call EXCEPT ![c] = [rec EXCEPT !.pc = "close_conn"]]
         /\ closer' = closer
    ELSE /\ call' = [call EXCEPT ![c] = IdleCall]
         /\ closer' = "done"

\* len := p.Size()
CloseSize(c) ==
  /\ panic = ""
  /\ call[c].pc = "close_size"
  /\ CloseLoop(c, [call[c] EXCEPT !.len = Size, !.i = 0])
  /\ UNCHANGED <<cfgVars, phase, pool, next, closedCh, prober, ticker, pass,
                 held, created, closeCount, unhealthy, panic, log>>

\* p.pool[0].Close(): an unlocked read of p.pool.
CloseConn(c) ==
  /\ panic = ""
  /\ call[c].pc = "close_conn"
  /\ IF ~InRange(pool, 0)
       THEN /\ panic' = "index out of range"
            /\ UNCHANGED <<call, closeCount>>
       ELSE /\ panic' = panic
            /\ closeCount' = [closeCount EXCEPT ![At(pool, 0)] = @ + 1]
            /\ call' = [call EXCEPT ![c].pc = "close_remove"]
  /\ UNCHANGED <<cfgVars, phase, pool, next, closedCh, closer, prober, ticker,
                 pass, held, created, unhealthy, log>>

\* p.removeFromPool(0)
CloseRemove(c) ==
  /\ panic = ""
  /\ call[c].pc = "close_remove"
  /\ IF ~InRange(pool, 0)
       THEN /\ panic' = "slice bounds out of range"
            /\ UNCHANGED <<call, pool, closer>>
       ELSE /\ panic' = panic
            /\ pool' = removeFromPool(pool, 0)
            /\ CloseLoop(c, [call[c] EXCEPT !.i = @ + 1])
  /\ UNCHANGED <<cfgVars, phase, next, closedCh, prober, ticker, pass, held,
                 created, closeCount, unhealthy, log>>

Close(c) ==
  \/ CloseDo(c)
  \/ CloseSkip(c)
  \/ CloseReturn(c)
  \/ CloseSize(c)
  \/ CloseConn(c)
  \/ CloseRemove(c)

\* ------------------------------------------------------------- environment
\* The health predicate (HealthyFunc) starts reporting connection x
\* unhealthy; at most maxSick connections come to be reported so.
HealthFailsUpTo(x, maxSick) ==
  /\ panic = ""
  /\ phase = "running"
  /\ opts.Healthy
  /\ x <= created
  /\ x \notin unhealthy
  /\ Cardinality(unhealthy) < maxSick
  /\ closeCount[x] = 0
  /\ unhealthy' = unhealthy \cup {x}
  /\ UNCHANGED <<cfgVars, phase, pool, next, closedCh, closer, prober, ticker,
                 pass, callVars, created, closeCount, panic, log>>

HealthFails(x) == HealthFailsUpTo(x, MaxSick)

\* ----------------------------------------------------------- specification
Next ==
  \/ New
  \/ \E p \in 0..MaxPasses : probe(p, BOOLEAN, MaxConns)
  \/ connectTick(MaxPasses)
  \/ connectStop
  \/ \E c \in Callers : NextSize(c) \/ NextAdd(c) \/ NextRead(c)
  \/ \E c \in Callers : ExNextSize(c) \/ ExNextCheck(c)
                          \/ (next < MaxCursor /\ ExNextAdd(c))
                          \/ ExNextRead(c) \/ ExNextRemove(c)
  \/ \E c \in Callers : Return(c)
  \/ \E c \in Callers : Close(c)
  \/ \E x \in Conns : HealthFails(x)

Spec == Init /\ [][Next]_vars

\* ------------------------------------------------- scenario specifications
InitWide == InitUpTo(WideConnections)

\* A pass of a pool whose connect function always succeeds and whose closed
\* channel stays empty: the eager pass fills the registry, the spawned
\* passes find it full.
SteadyPass(p) ==
  \/ probeLock(p)
  \/ probeDefault(p)
  \/ probeSize(p)
  \/ probeConnect(p, {TRUE}, WideConnections + 1)

\* SpecSteady: the connect function always succeeds and the callers invoke
\* neither ExNext nor Return nor Close; the ticker spawns passes and the
\* callers invoke Next while connections turn unhealthy.
NextSteady ==
  \/ New
  \/ \E p \in 0..WidePasses : SteadyPass(p)
  \/ connectTick(WidePasses)
  \/ \E c \in Callers : NextSize(c) \/ NextAdd(c) \/ NextRead(c)
  \/ \E x \in Conns : HealthFails(x)

SpecSteady == InitWide /\ [][NextSteady]_vars

\* SpecClose: the callers invoke Close only, sequentially or concurrently,
\* while the ticker and the passes run.
NextClose ==
  \/ New
  \/ \E p \in 0..MaxPasses : probe(p, BOOLEAN, MaxConns)
  \/ connectTick(MaxPasses)
  \/ connectStop
  \/ \E c \in Callers : Close(c)
  \/ \E x \in Conns : HealthFails(x)

SpecClose == Init /\ [][NextClose]_vars

\* SpecRR: one caller invokes Next again and again on a full registry that
\* nothing modifies, while the ticker spawns passes; log records what each
\* call returned: the registry position, or -1 for the absence result.
RRExtra == 2

RRSize ==
  /\ Len(log) < 2 * opts.Connections + RRExtra
  /\ NextSizeCore(1)
  /\ log' = IF Size = 0 THEN Append(log, 0 - 1) ELSE log

RRAdd == NextAddCore(1) /\ UNCHANGED log

RRRead ==
  /\ NextReadCore(1)
  /\ log' = IF InRange(pool, call[1].index) THEN Append(log, call[1].index) ELSE log

NextRR ==
  \/ New
  \/ \E p \in 0..WidePasses : SteadyPass(p)
  \/ connectTick(WidePasses)
  \/ RRSize
  \/ RRAdd
  \/ RRRead

SpecRR == InitWide /\ [][NextRR]_vars

\* FairLoop: the background loop and one caller that may invoke Close, under
\* the fairness of the Go scheduler: every goroutine that can take a step
\* eventually does, and a select whose closed case is ready again and again
\* eventually takes it.
NextLoop ==
  \/ New
  \/ \E p \in 0..MaxPasses : probe(p, BOOLEAN, MaxConns)
  \/ connectTick(MaxPasses)
  \/ connectStop
  \/ Close(1)
  \/ \E x \in Conns : HealthFails(x)

FairLoop ==
  /\ Init
  /\ [][NextLoop]_vars
  /\ WF_vars(New)
  /\ \A p \in 0..MaxPasses : WF_vars(probe(p, BOOLEAN, MaxConns))
  /\ WF_vars(connectTick(MaxPasses))
  /\ SF_vars(connectStop)
  /\ WF_vars(CloseSize(1) \/ CloseConn(1) \/ CloseRemove(1))

\* SpecExRet: one caller invokes ExNext and Return, one after the other, on
\* a registry the eager pass filled; nothing runs concurrently (no tick
\* fires during the run).
NextExRet ==
  \/ New
  \/ SteadyPass(0)
  \/ ExNextSize(1)
  \/ ExNextCheck(1)
  \/ (next < 2 * WideConnections /\ ExNextAdd(1))
  \/ ExNextRead(1)
  \/ ExNextRemove(1)
  \/ Return(1)

SpecExRet == InitWide /\ [][NextExRet]_vars

\* SpecNew: construction alone, for every combination of the options: New
\* and its eager pass, with a connect function that succeeds or fails.
NextNew ==
  \/ New
  \/ probeLock(0)
  \/ probeDefault(0)
  \/ probeSize(0)
  \/ probeConnect(0, BOOLEAN, WideConnections + 1)

SpecNew == InitWide /\ [][NextNew]_vars

\* SpecPass: the passes alone, one after the other, on a registry that the
\* eager pass left below the target (its connects may fail); the connect
\* function succeeds in every spawned pass, connections turn unhealthy, and
\* no caller does anything.
NextPass ==
  \/ New
  \/ \E p \in 0..MaxPasses :
       \/ probeLock(p)
       \/ probeDefault(p)
       \/ probeSize(p)
       \/ probeHealthy(p)
       \/ probeClose(p)
       \/ probeRemove(p)
       \/ probeConnect(p, IF p = 0 THEN BOOLEAN ELSE {TRUE}, WideConnections + 1)
  \/ connectTick(MaxPasses)
  \/ \E x \in Conns : HealthFails(x)

SpecPass == InitWide /\ [][NextPass]_vars

\* SpecSerial: the ticker spawns several passes while earlier ones are still
\* running or waiting; a caller may invoke Close, connects succeed or fail
\* and connections turn unhealthy.
NextSerial ==
  \/ New
  \/ \E p \in 0..WidePasses : probe(p, BOOLEAN, MaxConns)
  \/ connectTick(WidePasses)
  \/ connectStop
  \/ Close(1)
  \/ \E x \in Conns : HealthFails(x)

SpecSerial == Init /\ [][NextSerial]_vars

\* SpecScan: the passes alone on a registry below the target (connects
\* succeed or fail), whose members turn unhealthy between two passes in any
\* number and position; no caller does anything.  log records the
\* connections the running pass has handed to the health predicate.
ScanSize(p) == probeSizeCore(p) /\ log' = <<>>

ScanHealthy(p) ==
  /\ probeHealthyCore(p)
  /\ log' = IF InRange(pool, pass[p].i - pass[p].removed)
              THEN Append(log, At(pool, pass[p].i - pass[p].removed))
              ELSE log

ScanHealthFails(x) == prober = 0 - 1 /\ HealthFailsUpTo(x, WideConnections)

NextScan ==
  \/ New
  \/ \E p \in 0..MaxPasses :
       \/ probeLock(p)
       \/ probeDefault(p)
       \/ ScanSize(p)
       \/ ScanHealthy(p)
       \/ probeClose(p)
       \/ probeRemove(p)
       \/ probeConnect(p, BOOLEAN, WideConnections + 1)
  \/ connectTick(MaxPasses)
  \/ \E x \in Conns : ScanHealthFails(x)

InitScan == InitUpTo(WideConnections + 1)

SpecScan == InitScan /\ [][NextScan]_vars

\* ------------------------------------------------------------------ claims
\* The positions of probe() after its check of the closed channel.
Working == {"size", "healthy", "close", "remove", "connect"}

\* A registry grows in this step by a caller's Return.
ReturnStep == \E c \in Callers : held'[c] # held[c] /\ Len(pool') = Len(pool) + 1

\* C1: ExNext hands out connections exclusively under any interleaving of
\* concurrent ExNext callers: a successful ExNext removes from the registry
\* exactly the connection it returns, a connection held by a caller is not in
\* the registry, and no connection is held by two callers at once.
C1_ExNextExclusive ==
  /\ \A c \in Callers :
       (call[c].pc = "ex_remove" /\ InRange(pool, call[c].index))
         => At(pool, call[c].index) = call[c].conn
  /\ \A c \in Callers : held[c] \cap Range(pool) = {}
  /\ \A c, d \in Callers : c # d => held[c] \cap held[d] = {}

\* C2: after Close has returned the registry is empty when Close returns and
\* no step other than a caller's Return makes it non-empty again, whatever
\* passes were in flight or are triggered afterwards.  (That the signal can be
\* observed by everyone is C7.)
C2_ClosedStaysEmpty ==
  [][ /\ (closer = "running" /\ closer' = "done" /\ \A c \in Callers : held[c] = {})
           => Len(pool') = 0
      /\ (closer = "done" /\ Len(pool) = 0 /\ ~ReturnStep) => Len(pool') = 0 ]_vars

\* C3: a connection the health predicate reports unhealthy when a pass starts
\* its work is out of the registry when that pass ends, for every registry
\* size, the target count included, and its Close was invoked exactly once.
C3_UnhealthyEvicted ==
  [][ \A p \in Passes :
        (pass[p].pc \in Working /\ pass'[p].pc = "idle")
          => /\ pass[p].sick \cap Range(pool') = {}
             /\ \A x \in pass[p].sick : closeCount'[x] = 1 ]_vars

\* C4: Next or ExNext invoked while the registry is empty returns the absence
\* result: an ExNext whose first read of the size found 0 does not go on to
\* the cursor and the division, and no call ends in a division by zero, also
\* when Return or a replenishing pass runs concurrently.
C4_EmptyIsAbsent ==
  /\ \A c \in Callers : call[c].pc = "ex_add" => call[c].len # 0
  /\ panic # "integer divide by zero"

\* C5: a pass that acquires the probe lock after Close has been invoked
\* observes the closed signal and returns at once: it is never at a position
\* after the check (no health predicate, no connect, no registry change).
C5_PassAfterCloseReturns ==
  \A p \in Passes : pass[p].afterClose => pass[p].pc \notin Working

\* C6: Close is idempotent: when Close has been invoked two or more times,
\* sequentially or concurrently, and the drain has returned, the registry is
\* empty and every connection the connect function produced has been closed
\* exactly once; no connection is ever closed twice and the closed channel
\* never holds more than the one signal.
C6_CloseIdempotent ==
  /\ closedCh <= 1
  /\ \A x \in Conns : closeCount[x] <= 1
  /\ (closer = "done" /\ \E c \in Callers : call[c].pc = "close_wait")
       => /\ pool = <<>>
          /\ \A x \in 1..created : closeCount[x] = 1

\* C7: the closed signal is a broadcast: once Close has been invoked, every
\* observer that checks Closed() (the ticker loop in its select, a pass at
\* its select) finds it fired, however many observers have already seen it.
C7_ClosedBroadcast ==
  closer # "fresh" =>
    /\ ticker = "running" => closedCh > 0
    /\ \A p \in Passes : pass[p].pc = "select" => closedCh > 0

\* C8: after Close is invoked the ticker loop eventually terminates, under
\* fair scheduling, whatever passes were in flight.
C8_TickerStops == (closer # "fresh") ~> (ticker = "stopped" \/ panic # "")

\* C9: when the connect function always succeeds, Size() is the target count
\* as soon as New has returned and in every later state in which no ExNext,
\* Return or Close has been invoked: every spawned pass finds the registry at
\* the target and returns without scanning or connecting.
C9_SteadySize ==
  /\ panic = ""
  /\ phase = "running"
       => /\ Len(pool) = opts.Connections
          /\ pool = [k \in 1..opts.Connections |-> k]
          /\ \A p \in 1..WidePasses :
               pass[p].pc \notin {"healthy", "close", "remove", "connect"}

\* New has returned a pool of the widest target, a caller has used Next, a
\* connection has turned unhealthy and a spawned pass is reading the size.
C9_Witness ==
  /\ phase = "running"
  /\ opts.Connections = WideConnections
  /\ next > 0
  /\ unhealthy # {}
  /\ \E p \in 1..WidePasses : pass[p].pc = "size"

\* C10: on a registry of N >= 1 connections that nothing modifies, the calls
\* of Next by one thread all report found, each returns the position after
\* the previous call's position modulo N, any 2N consecutive calls return
\* every position exactly twice, and the registry is left unchanged.
C10_RoundRobin ==
  /\ panic = ""
  /\ phase = "running" => pool = [k \in 1..opts.Connections |-> k]
  /\ \A k \in 1..Len(log) : log[k] \in 0..(Len(pool) - 1)
  /\ \A k \in 1..(Len(log) - 1) : log[k + 1] = (log[k] + 1) % Len(pool)
  /\ \A s \in 0..(Len(log) - 2 * Len(pool)) :
       \A pos \in 0..(Len(pool) - 1) :
         Cardinality({k \in (s + 1)..(s + 2 * Len(pool)) : log[k] = pos}) = 2

\* 2N calls and more have returned on a registry of the widest target.
C10_Witness ==
  /\ Len(pool) = WideConnections
  /\ Len(log) > 2 * Len(pool)

\* C11: with no concurrent operation, ExNext on a registry of size S >= 1
\* leaves the S-1 other connections in their previous relative order and
\* hands the removed one to the caller; Return appends the connection at the
\* end, so that the size is S again and the connection is in the registry,
\* where Next and ExNext find it.
C11_ExNextReturnRestores ==
  /\ [](/\ panic = ""
        /\ phase = "running"
             => /\ Len(pool) + Cardinality(held[1]) = opts.Connections
                /\ held[1] \cap Range(pool) = {}
                /\ Range(pool) \cup held[1] = 1..opts.Connections)
  /\ [][ /\ (call[1].pc = "ex_remove" /\ call'[1].pc = "idle")
              => /\ pool' = [k \in 1..(Len(pool) - 1) |->
                               IF k <= call[1].index THEN pool[k] ELSE pool[k + 1]]
                 /\ held'[1] = held[1] \cup {pool[call[1].index + 1]}
         /\ (held'[1] # held[1] /\ call[1].pc = "idle")
              => \E x \in held[1] :
                   /\ held'[1] = held[1] \ {x}
                   /\ Len(pool') = Len(pool) + 1
                   /\ pool'[Len(pool')] = x
                   /\ SubSeq(pool', 1, Len(pool)) = pool ]_vars

\* The caller has taken connections of a registry of the widest target and
\* returned them all: the registry is full again, in another order.
C11_Witness ==
  /\ phase = "running"
  /\ opts.Connections = WideConnections
  /\ held[1] = {}
  /\ Len(pool) = WideConnections
  /\ pool # [k \in 1..WideConnections |-> k]

\* C12: New validates the options with one error per cause, in this order:
\* ErrNoConnectFunc when Connect is nil, whatever the other fields; else
\* ErrInvalidConnectionCount when Connections < 1; else
\* ErrInvalidProbeInterval when ProbeInterval <= 0; else it succeeds, with
\* or without a health predicate.  On an error no pool is built and the
\* connect function is never invoked.
C12_ValidationErrors ==
  /\ phase = "init" => newErr = "" /\ created = 0
  /\ phase # "init" =>
       /\ ~opts.Connect
            => phase = "failed" /\ newErr = "ErrNoConnectFunc"
       /\ (opts.Connect /\ opts.Connections < 1)
            => phase = "failed" /\ newErr = "ErrInvalidConnectionCount"
       /\ (opts.Connect /\ opts.Connections >= 1 /\ opts.ProbeInterval <= 0)
            => phase = "failed" /\ newErr = "ErrInvalidProbeInterval"
       /\ (opts.Connect /\ opts.Connections >= 1 /\ opts.ProbeInterval > 0)
            => phase \in {"probing", "running"} /\ newErr = ""
  /\ phase = "failed" =>
       /\ created = 0
       /\ pool = <<>>
       /\ ticker = "off"
       /\ \A p \in Passes : pass[p].pc = "idle"

\* New has refused options that are wrong in all three ways at once.
C12_Witness ==
  /\ phase = "failed"
  /\ ~opts.Connect
  /\ opts.Connections < 1
  /\ opts.ProbeInterval <= 0

\* C13: in every reachable state the registry length is between 0 and the
\* target count, for every interleaving of Next, ExNext, Return, passes and
\* Close in which each Return gives back a connection obtained by ExNext.
C13_LengthWithinTarget ==
  phase = "running" => Len(pool) >= 0 /\ Len(pool) <= opts.Connections

\* C14: a stale round-robin index or a stale size is harmless: under any
\* interleaving every indexed read of the registry and every remove-by-index
\* (Next, ExNext, the health scan of a pass, the drain of Close) uses an
\* index inside the registry's bounds at the moment of the access, so that
\* no operation faults.
C14_StaleIndexHarmless ==
  panic \notin {"index out of range", "slice bounds out of range"}

\* C15: a single pass converges the registry on the target: a spawned pass
\* whose connects all succeed and that nothing runs concurrently with leaves
\* the registry at exactly the target count when it ends, also when it
\* evicted unhealthy connections.
C15_PassConverges ==
  [][ \A p \in 1..MaxPasses :
        (pass[p].pc \in Working /\ pass'[p].pc = "idle")
          => Len(pool') = opts.Connections ]_vars

\* C16: no connection's Close is invoked more than once in any execution,
\* under every interleaving of Close with passes that evict unhealthy
\* connections.
C16_NoDoubleClose == \A x \in Conns : closeCount[x] <= 1

\* C17: connection ownership is conserved: every connection the connect
\* function produced is in the registry (once), or exclusively held by the
\* one caller that obtained it from ExNext, or closed; a held connection is
\* neither in the registry nor closed, and no connection leaves the registry
\* without being closed or handed to a caller.  (A connection whose Close
\* has been invoked may still be in the registry until the remove that
\* follows.)
C17_OwnershipConserved ==
  \A x \in 1..created :
    LET inRegistry == {k \in 1..Len(pool) : pool[k] = x}
        holders == {c \in Callers : x \in held[c]}
    IN /\ Cardinality(inRegistry) <= 1
       /\ Cardinality(holders) <= 1
       /\ holders # {} => inRegistry = {} /\ closeCount[x] = 0
       /\ inRegistry # {} \/ holders # {} \/ closeCount[x] >= 1

\* A pass is between p.prober.Lock() and the deferred Unlock.
Holding(p) == pass[p].pc \in {"select"} \cup Working

\* C18: passes never overlap: in every reachable state at most one pass is
\* between acquiring and releasing the probe lock, and it is the one the
\* lock records; a pass spawned while another is running waits at the lock.
C18_PassesSerialized ==
  /\ Cardinality({p \in Passes : Holding(p)}) <= 1
  /\ \A p \in Passes : Holding(p) <=> prober = p
  /\ \A p \in Passes : (pass[p].pc = "lock" /\ \E q \in Passes : Holding(q))
                         => ~ENABLED probeLock(p)

\* One spawned pass is in its scan or fill loop while another spawned pass
\* waits for the lock.
C18_Witness ==
  \E p, q \in 1..WidePasses :
    /\ p # q
    /\ pass[p].pc \in {"healthy", "close", "remove", "connect"}
    /\ pass[q].pc = "lock"

\* The positions of probe() inside its health scan.
Scanning == {"healthy", "close", "remove"}

NoDuplicates(s) == \A a, b \in 1..Len(s) : a # b => s[a] # s[b]

\* C19: the health scan of a pass that starts with size != target, with no
\* concurrent registry mutation, hands every connection present at the start
\* to the predicate exactly once, in registry order, closes once and removes
\* exactly those reported unhealthy, wherever they are, and keeps the healthy
\* ones in their previous relative order; with no predicate configured a
\* pass never removes a connection.
C19_HealthScanExact ==
  /\ panic = ""
  /\ ~opts.Healthy =>
       /\ \A x \in Conns : closeCount[x] = 0
       /\ \A p \in Passes : pass[p].pc \notin Scanning
       /\ pool = [k \in 1..created |-> k]
  /\ \A k \in 1..(Len(pool) - 1) : pool[k] < pool[k + 1]
  /\ \A x \in 1..created :
       IF x \in Range(pool)
         THEN \/ closeCount[x] = 0
              \/ /\ closeCount[x] = 1
                 /\ \E p \in Passes : /\ pass[p].pc = "remove"
                                      /\ pool[pass[p].i - pass[p].removed + 1] = x
         ELSE closeCount[x] = 1 /\ x \in unhealthy
  /\ \A p \in Passes :
       LET r == pass[p]
           kept == r.i - r.removed
           probing == IF r.pc = "healthy" THEN 0 ELSE 1
       IN /\ r.pc \in Scanning =>
               /\ Len(pool) = r.len - r.removed
               /\ r.i < r.len /\ kept >= 0
               /\ Len(log) = r.i + probing
               /\ NoDuplicates(log)
               /\ \A k \in 1..kept : pool[k] \in Range(log) /\ pool[k] \notin unhealthy
               /\ \A k \in (kept + probing + 1)..Len(pool) : pool[k] \notin Range(log)
               /\ probing = 1 => pool[kept + 1] = log[Len(log)] /\ pool[kept + 1] \in unhealthy
               /\ Cardinality(Range(log) \ Range(pool)) = r.removed
          /\ (r.pc = "connect" /\ opts.Healthy) =>
               /\ Len(log) = r.len
               /\ NoDuplicates(log)
               /\ \A k \in 1..(r.len - r.removed) :
                    pool[k] \in Range(log) /\ pool[k] \notin unhealthy
               /\ Cardinality(Range(log) \ Range(pool)) = r.removed
               /\ (Range(log) \ Range(pool)) \subseteq unhealthy

\* A pass has finished the scan of a registry of WideConnections members and
\* evicted all of them but one.
C19_Witness ==
  \E p \in Passes :
    /\ pass[p].pc = "connect"
    /\ pass[p].len = WideConnections
    /\ pass[p].removed = WideConnections - 1
    /\ Len(log) = WideConnections

\* C20: a connect failure never aborts a pass and never reaches a caller: a
\* pass whose fill loop has d = target - len units to fill invokes the
\* connect function exactly d times whatever the outcomes, each invocation
\* either appends the one new connection or changes nothing, a pass with
\* d > 0 does not end before its loop, and New returns the pool without
\* error also when every connect of the eager pass fails.
C20_ConnectFailureContained ==
  /\ [](/\ panic = ""
        /\ phase \in {"probing", "running"} => newErr = ""
        /\ \A p \in Passes :
             pass[p].pc = "connect" => pass[p].j < opts.Connections - pass[p].len)
  /\ [][ \A p \in Passes :
           /\ (pass[p].pc = "connect" /\ pass'[p] # pass[p]) =>
                /\ \/ /\ pass'[p].pc = "connect"
                      /\ pass'[p].j = pass[p].j + 1
                   \/ /\ pass'[p].pc = "idle"
                      /\ pass[p].j + 1 = opts.Connections - pass[p].len
                      /\ prober' = 0 - 1
                      /\ p = 0 => phase' = "running"
                /\ \/ created' = created /\ pool' = pool
                   \/ created' = created + 1 /\ pool' = Append(pool, created')
           /\ (pass[p].pc \in {"size", "healthy", "remove"} /\ pass'[p].pc = "idle") =>
                \/ pass[p].pc = "size" /\ Len(pool) >= opts.Connections
                \/ pass[p].pc # "size" /\ pass[p].len >= opts.Connections ]_vars

\* New has returned a pool of the widest target although every connect of
\* its eager pass failed.
C20_Witness ==
  /\ phase = "running"
  /\ newErr = ""
  /\ opts.Connections = WideConnections + 1
  /\ created = 0
  /\ pool = <<>>

=============================================================================
